---- MODULE Spec2Model ----
(***************************************************************************)
(* Activity-tracker backend: the sync reconciler (POST /push, routes/sync) *)
(* and the screenshot retention policy (routes/screenshots) as state       *)
(* machines over the PostgreSQL tables of models/database.js.              *)
(*                                                                         *)
(* Every db.prepare(sql).run/get/all call is one pool.query, i.e. one      *)
(* autocommitted SQL statement: a statement is one atomic step, and the    *)
(* `await` in front of it is a point where other requests interleave.      *)
(* Nullable values are modelled as options: <<>> is null/undefined and     *)
(* <<v>> is the value v.                                                   *)
(***************************************************************************)
EXTENDS Integers, Sequences, FiniteSets, TLC

\* ------------------------------------------------------------------ bounds
MaxPushes  == 3   \* push requests received in one behaviour
MaxBodies  == 2   \* the same, where every request body shape is drawn
MaxSeconds == 2   \* largest totalSeconds a payload carries
MaxVisits  == 2   \* largest visits a payload carries
MaxTime    == 2   \* largest local time of a firstVisit/lastVisit input
MaxEvents  == 1   \* longest activityEvents list of a request
MaxExtra   == 3   \* screenshots inserted beyond the per-user limit
MaxRows    == 3   \* usage_records rows of a table the analytics routes read

\* ------------------------------------------------------------- value sets
None == <<>>
Some(v) == <<v>>

Users     == {"u1", "u2"}
DeviceIds == {"d1", "d2", "d3"}
Domains   == {"a.com", "b.com"}
Dates     == {"2024-01-01", "2024-01-02", "2024-01-08"}
Procs     == {"p1", "p2"}

\* devices rows as created by POST /devices: d1 and d3 belong to u1, d2 to u2
OwnerOf(d) == IF d = "d2" THEN "u2" ELSE "u1"

\* deviceId of a request body: absent, a registered id, or an unknown id
DeviceInputs == {None} \cup {Some(d) : d \in {"d1", "d2", "dx"}}

UsageKeys == Users \X DeviceIds \X Domains \X Dates
Pairs     == {"2024-01-01", "2024-01-02"} \X {"a.com"}

\* ---------------------------------------------------------- JS conversions
\* A firstVisit/lastVisit input: a date string with a UTC offset, the number
\* 0 (falsy), or a string Date cannot parse.
IsoTimes ==
  {[kind |-> "iso", local |-> l, off |-> 0] : l \in 1..MaxTime}
    \cup {[kind |-> "iso", local |-> MaxTime, off |-> 1]}
ZeroTime == [kind |-> "zero", local |-> 0, off |-> 0]
BadTime  == [kind |-> "bad", local |-> 0, off |-> 0]

\* JS truthiness of an optional number: null/undefined and 0 are falsy
TruthyNum(x) == x # None /\ x[1] # 0

\* JS truthiness of an optional string: null/undefined and "" are falsy
TruthyStr(x) == x # None /\ x[1] # ""

\* x || d for a number, and for a string
NumOr(x, d) == IF TruthyNum(x) THEN x[1] ELSE d
StrOr(x, d) == IF TruthyStr(x) THEN x[1] ELSE d

TruthyTime(x) == x # None /\ x[1].kind # "zero"

\* new Date(v) is an Invalid Date: toISOString() throws RangeError
Throws(x) == TruthyTime(x) /\ x[1].kind = "bad"

\* new Date(v).toISOString(): the instant in UTC, as canonical text
\* YYYY-MM-DDTHH:mm:ss.sssZ. Texts of this one format order as their
\* instants do, so the text is represented by the instant.
ToISOString(v) == v.local - v.off

\* data.firstVisit ? new Date(data.firstVisit).toISOString() : null
TimeParam(x) == IF TruthyTime(x) THEN Some(ToISOString(x[1])) ELSE None

\* ------------------------------------------------------------ SQL functions
Max(a, b) == IF a >= b THEN a ELSE b
Min(a, b) == IF a <= b THEN a ELSE b

\* faulty variants of the SQL functions: the new value overwrites; LEAST with
\* the NULL-propagating semantics of other engines
LastWins(a, b) == b
NullLeast(a, b) ==
  IF a = None \/ b = None THEN None ELSE Some(Min(a[1], b[1]))

\* faulty variant of LEAST: the stored value is kept once there is one
KeepFirst(a, b) == IF a # None THEN a ELSE b

\* PostgreSQL GREATEST/LEAST: NULL arguments are ignored, the result is NULL
\* only when every argument is NULL
Greatest(a, b) ==
  IF a = None THEN b ELSE IF b = None THEN a ELSE Some(Max(a[1], b[1]))
Least(a, b) ==
  IF a = None THEN b ELSE IF b = None THEN a ELSE Some(Min(a[1], b[1]))
Coalesce(a, b) == IF a # None THEN a ELSE b

\* the row the INSERT proposes (EXCLUDED): the ten parameters of run()
Excluded(domain, data) ==
  [title         |-> Some(StrOr(data.title, domain)),
   category      |-> Some(StrOr(data.category, "Other")),
   total_seconds |-> Some(NumOr(data.totalSeconds, 0)),
   visits        |-> Some(NumOr(data.visits, 0)),
   first_visit   |-> TimeParam(data.firstVisit),
   last_visit    |-> TimeParam(data.lastVisit)]

\* faulty variants of the conflict clause: the row with the larger
\* total_seconds wins as a whole; visits are added up
WholeRowWins(row, ex) ==
  IF ex.total_seconds[1] >= row.total_seconds[1] THEN ex ELSE row
AddVisits(row, ex) ==
  [title         |-> Coalesce(ex.title, row.title),
   category      |-> Coalesce(ex.category, row.category),
   total_seconds |-> Greatest(row.total_seconds, ex.total_seconds),
   visits        |-> Some(row.visits[1] + ex.visits[1]),
   first_visit   |-> Least(row.first_visit, ex.first_visit),
   last_visit    |-> Greatest(row.last_visit, ex.last_visit)]

\* faulty variant of the conflict clause: seconds are added up
AddSeconds(row, ex) ==
  [title         |-> Coalesce(ex.title, row.title),
   category      |-> Coalesce(ex.category, row.category),
   total_seconds |-> Some(row.total_seconds[1] + ex.total_seconds[1]),
   visits        |-> Greatest(row.visits, ex.visits),
   first_visit   |-> Least(row.first_visit, ex.first_visit),
   last_visit    |-> Greatest(row.last_visit, ex.last_visit)]

\* ON CONFLICT (user_id, device_id, domain, date) DO UPDATE SET ...
OnConflict(row, ex) ==
  [title         |-> Coalesce(ex.title, row.title),
   category      |-> Coalesce(ex.category, row.category),
   total_seconds |-> Greatest(row.total_seconds, ex.total_seconds),
   visits        |-> Greatest(row.visits, ex.visits),
   first_visit   |-> Least(row.first_visit, ex.first_visit),
   last_visit    |-> Greatest(row.last_visit, ex.last_visit)]

\* faulty variant of the statement: a plain replace of the row
Replace(slot, ex) == Some(ex)

\* the whole statement on the slot of one key: insert, or update on conflict
Upsert(slot, ex) == IF slot = None THEN Some(ex) ELSE Some(OnConflict(slot[1], ex))

\* ------------------------------------------------------------------ state
VARIABLES
  devices,    \* devices table: id -> option [user_id, last_sync_at]
  usage,      \* usage_records table: unique key -> option row
  events,     \* activity_events table, in insertion (SERIAL id) order
  syncLog,    \* sync_log table, in insertion order
  pc,         \* per request handler: the statement it is about to run
  req,        \* per request handler: req.user and req.body
  loc,        \* per request handler: its local variables and its response
  received,   \* number of push requests received so far
  last,       \* history: key and payload of the most recent upsert
  ever,       \* history: per key, the extremes of all payloads merged so far
  tries,      \* history: the request being retried and the table it first met
  view,       \* the response of the most recent analytics query
  shots,      \* screenshots table of one user: rows, named by created_at order
  shotDev,    \* screenshots.device_id of each row
  files,      \* rows whose stored file is on disk
  created,    \* number of screenshots rows inserted so far
  upc,        \* per upload handler: the statement it is about to run
  uloc        \* per upload handler: its local variables and its response

pushVars == <<devices, usage, events, syncLog, pc, req, loc, received, last, ever, tries>>
shotVars == <<shots, shotDev, files, created, upc, uloc>>
statVars == <<view>>
vars == <<pushVars, shotVars, statVars>>

\* NOW(): the database clock, read as a logical clock that advances with
\* every request received
Now == received

\* usageData of a request body: missing, a truthy non-object, or an object
UsageKinds == {"absent", "scalar", "object"}

\* report is the content of usageData when the request fixes it; with no
\* report the entries are drawn as the loop reads them
NoReq == [user |-> "", deviceId |-> None, usageKind |-> "absent", evLen |-> 0,
          report |-> None]
\* cur holds the loop variables date, domain and data of the iteration whose
\* statement ran last, with the slot that statement found (before) and whether
\* it repeated the previous upsert (repeat); status is the response code and
\* synced the `synced` object of the success response
NoLoc == [usageCount |-> 0, eventCount |-> 0, visited |-> {}, cur |-> None,
          status |-> 0, malformed |-> FALSE, synced |-> None]

\* the payload no field of which is set (also what a non-object `data` reads as)
EmptyData ==
  [title |-> None, category |-> None, totalSeconds |-> None, visits |-> None,
   firstVisit |-> None, lastVisit |-> None]

\* locals of a screenshots handler: the endpoint, the device_id it inserts,
\* the COUNT(*) it read, the rows it still has to evict, req.params.id of a
\* DELETE, and its response code; gone is history: the rows whose file
\* fs.existsSync did not find
NoUpload == [route |-> "", device |-> "", count |-> 0, oldest |-> <<>>, target |-> 0,
             status |-> 0, gone |-> {}]

\* no analytics query has been answered
NoView == [route |-> ""]

Init ==
  /\ devices = [d \in DeviceIds |-> Some([user_id |-> OwnerOf(d), last_sync_at |-> None])]
  /\ usage = [k \in UsageKeys |-> None]
  /\ events = <<>>
  /\ syncLog = <<>>
  /\ pc = [p \in Procs |-> "idle"]
  /\ req = [p \in Procs |-> NoReq]
  /\ loc = [p \in Procs |-> NoLoc]
  /\ received = 0
  /\ last = None
  /\ ever = [k \in UsageKeys |-> None]
  /\ tries = None
  /\ view = NoView
  /\ shots = {}
  /\ shotDev = [x \in {} |-> ""]
  /\ files = {}
  /\ created = 0
  /\ upc = [p \in Procs |-> "idle"]
  /\ uloc = [p \in Procs |-> NoUpload]

\* res.status(code).json(...): the handler is finished
Respond(p, code, bad) ==
  /\ pc' = [pc EXCEPT ![p] = "done"]
  /\ loc' = [loc EXCEPT ![p].status = code, ![p].malformed = @ \/ bad]

\* ------------------------------------------------------------- POST /push
\* the request arrives; `if (!deviceId) return 400`
Receive(p, RQ, N) ==
  /\ pc[p] = "idle"
  /\ received < N
  /\ received' = received + 1
  /\ \E r \in RQ :
       /\ req' = [req EXCEPT ![p] = r]
       /\ tries' = IF r.report = None \/ (tries # None /\ tries[1].req = r)
                   THEN tries
                   ELSE Some([req |-> r, start |-> usage, partial |-> FALSE])
       /\ IF ~TruthyStr(r.deviceId)
          THEN /\ pc' = [pc EXCEPT ![p] = "done"]
               /\ loc' = [loc EXCEPT ![p] =
                            [NoLoc EXCEPT !.status = 400,
                                          !.malformed = (r.usageKind = "scalar")]]
          ELSE /\ pc' = [pc EXCEPT ![p] = "check"]
               /\ loc' = [loc EXCEPT ![p] =
                            [NoLoc EXCEPT !.malformed = (r.usageKind = "scalar")]]
  /\ UNCHANGED <<devices, usage, events, syncLog, last, ever, shotVars, statVars>>

\* faulty variant of the ownership check: the user_id condition is missing
DeviceExists(id, user) ==
  /\ id \in DeviceIds
  /\ devices[id] # None

\* SELECT * FROM devices WHERE id = ? AND user_id = ?
DeviceFound(id, user) ==
  /\ id \in DeviceIds
  /\ devices[id] # None
  /\ devices[id][1].user_id = user

\* faulty variant of the schema: device_id without REFERENCES devices(id)
NoForeignKey(id) == TRUE

\* device_id TEXT NOT NULL REFERENCES devices(id): an INSERT whose device_id
\* names no devices row is rejected
ForeignKeyOk(id) == id \in DeviceIds /\ devices[id] # None

\* the ownership check, then `if (usageData && typeof usageData === 'object')`
DeviceCheck(p) ==
  /\ pc[p] = "check"
  /\ IF DeviceFound(req[p].deviceId[1], req[p].user)
     THEN /\ pc' = [pc EXCEPT ![p] =
                     IF req[p].usageKind = "object" THEN "usage" ELSE "events"]
          /\ loc' = loc
     ELSE Respond(p, 404, FALSE)
  /\ UNCHANGED <<devices, usage, events, syncLog, req, received, last, ever, tries,
                 shotVars, statVars>>

\* Object.entries order: the domains of one date are visited together
NextPair(p, pair) ==
  /\ pair \notin loc[p].visited
  /\ \/ loc[p].cur # None /\ pair[1] = loc[p].cur[1].pair[1]
     \/ \A v \in loc[p].visited : v[1] # pair[1]

\* faulty variant: the device_id parameter is not the push's deviceId
KeyAnyDevice(p, pair) == <<req[p].user, "d1", pair[2], pair[1]>>

\* the (user_id, device_id, domain, date) the statement is run with
KeyOf(p, pair) == <<req[p].user, req[p].deviceId[1], pair[2], pair[1]>>

\* History, kept for the properties only (the handlers never read last, ever,
\* cur.before or cur.repeat). What a payload field says, whatever the code
\* makes of it: a missing or falsy counter is 0, a missing or falsy timestamp
\* is no timestamp
CounterOf(x) == IF x = None THEN 0 ELSE x[1]
InstantOf(x) ==
  IF x = None \/ x[1].kind # "iso" THEN None ELSE Some(x[1].local - x[1].off)
EarlierOf(a, b) ==
  IF a = None THEN b ELSE IF b = None THEN a ELSE IF a[1] <= b[1] THEN a ELSE b
LaterOf(a, b) ==
  IF a = None THEN b ELSE IF b = None THEN a ELSE IF a[1] >= b[1] THEN a ELSE b

Extremes(old, data) ==
  IF old = None
  THEN Some([maxSeconds |-> CounterOf(data.totalSeconds),
             maxVisits  |-> CounterOf(data.visits),
             minFirst   |-> InstantOf(data.firstVisit),
             maxLast    |-> InstantOf(data.lastVisit)])
  ELSE Some([maxSeconds |-> IF CounterOf(data.totalSeconds) > old[1].maxSeconds
                            THEN CounterOf(data.totalSeconds) ELSE old[1].maxSeconds,
             maxVisits  |-> IF CounterOf(data.visits) > old[1].maxVisits
                            THEN CounterOf(data.visits) ELSE old[1].maxVisits,
             minFirst   |-> EarlierOf(old[1].minFirst, InstantOf(data.firstVisit)),
             maxLast    |-> LaterOf(old[1].maxLast, InstantOf(data.lastVisit))])

\* one iteration of the inner loop whose statement succeeds
MergeEntry(p, pair, data, bad) ==
  LET k == KeyOf(p, pair)
      ex == Excluded(pair[2], data)
  IN /\ usage' = [usage EXCEPT ![k] = Upsert(usage[k], ex)]
     /\ last' = Some([key |-> k, data |-> data])
     /\ ever' = [ever EXCEPT ![k] = Extremes(@, data)]
     /\ loc' = [loc EXCEPT ![p].usageCount = @ + 1,
                           ![p].visited = @ \cup {pair},
                           ![p].cur = Some([pair |-> pair, data |-> data,
                                            before |-> usage[k],
                                            repeat |-> last = Some([key |-> k, data |-> data])]),
                           ![p].malformed = @ \/ bad]
     /\ pc' = pc

\* usageData[date][domain] is data
InReport(p, pair, data) ==
  IF req[p].report = None THEN TRUE
  ELSE /\ pair \in DOMAIN req[p].report[1]
       /\ data = req[p].report[1][pair]

\* the upsert loop over payloads drawn from P: one await per step
UsageStep(p, PR, P) ==
  /\ pc[p] = "usage"
  /\ \/ \* both loops are exhausted
        /\ IF req[p].report = None THEN TRUE
           ELSE DOMAIN req[p].report[1] \subseteq loc[p].visited
        /\ pc' = [pc EXCEPT ![p] = "events"]
        /\ loc' = [loc EXCEPT ![p].cur = None]
        /\ UNCHANGED <<usage, last, ever>>
     \/ \* a well-formed entry
        \E pair \in PR, data \in P :
          /\ NextPair(p, pair)
          /\ InReport(p, pair, data)
          /\ ~Throws(data.firstVisit) /\ ~Throws(data.lastVisit)
          /\ ForeignKeyOk(req[p].deviceId[1])
          /\ MergeEntry(p, pair, data, FALSE)
     \/ \* `data` is a number or a string: every field reads undefined
        \E pair \in PR :
          /\ NextPair(p, pair)
          /\ req[p].report = None
          /\ ForeignKeyOk(req[p].deviceId[1])
          /\ MergeEntry(p, pair, EmptyData, TRUE)
     \/ \* the devices row is gone since the check: the INSERT violates the
        \* foreign key, the exception lands in the catch, 500
        /\ \E pair \in PR, data \in P : NextPair(p, pair) /\ InReport(p, pair, data)
        /\ ~ForeignKeyOk(req[p].deviceId[1])
        /\ Respond(p, 500, FALSE)
        /\ UNCHANGED <<usage, last, ever>>
     \/ \* Object.entries(null), data.title of null, toISOString of an
        \* Invalid Date: the exception lands in the catch, 500
        /\ \/ \E pair \in PR : NextPair(p, pair) /\ req[p].report = None
           \/ \E pair \in PR, data \in P :
                /\ NextPair(p, pair)
                /\ InReport(p, pair, data)
                /\ Throws(data.firstVisit) \/ Throws(data.lastVisit)
        /\ Respond(p, 500, TRUE)
        /\ UNCHANGED <<usage, last, ever>>
  /\ UNCHANGED <<devices, events, syncLog, req, received, tries, shotVars, statVars>>

EventCap == 200

\* faulty variant of the slice: slice(0, 200), the first 200 entries
SliceHead(n) == [i \in 1..Min(n, EventCap) |-> i]

\* activityEvents.slice(-200) of a list of n entries, as the positions of the
\* kept entries in the list
Slice(n) == [i \in 1..Min(n, EventCap) |-> n - Min(n, EventCap) + i]

\* INSERT INTO activity_events, one statement per kept event; ev is the
\* entry (state, timestamp, date), named by its position in the list
EventStep(p) ==
  /\ pc[p] = "events"
  /\ \/ /\ loc[p].eventCount < Len(Slice(req[p].evLen))
        /\ ForeignKeyOk(req[p].deviceId[1])
        /\ events' = Append(events, [user_id |-> req[p].user,
                                     device_id |-> req[p].deviceId[1],
                                     ev |-> Slice(req[p].evLen)[loc[p].eventCount + 1]])
        /\ loc' = [loc EXCEPT ![p].eventCount = @ + 1]
        /\ pc' = pc
     \/ /\ loc[p].eventCount < Len(Slice(req[p].evLen))
        /\ ~ForeignKeyOk(req[p].deviceId[1])
        /\ Respond(p, 500, FALSE)
        /\ UNCHANGED events
     \/ /\ loc[p].eventCount >= Len(Slice(req[p].evLen))
        /\ pc' = [pc EXCEPT ![p] = "lastsync"]
        /\ UNCHANGED <<events, loc>>
  /\ UNCHANGED <<devices, usage, syncLog, req, received, last, ever, tries,
                 shotVars, statVars>>

\* UPDATE devices SET last_sync_at = NOW() WHERE id = ?
LastSync(p) ==
  /\ pc[p] = "lastsync"
  /\ LET d == req[p].deviceId[1]
     IN devices' = [devices EXCEPT ![d] =
                      IF @ = None THEN @
                      ELSE Some([@[1] EXCEPT !.last_sync_at = Some(Now)])]
  /\ pc' = [pc EXCEPT ![p] = "synclog"]
  /\ UNCHANGED <<usage, events, syncLog, req, loc, received, last, ever, tries,
                 shotVars, statVars>>

\* faulty variant: the log counts the events as well
RecordsAndEvents(p) == loc[p].usageCount + loc[p].eventCount

\* the records_synced parameter of the INSERT INTO sync_log
RecordsSynced(p) == loc[p].usageCount

\* INSERT INTO sync_log ..., then res.json({ message: 'Sync complete',
\* synced: { usageRecords: usageCount, activityEvents: eventCount } })
SyncLog(p) ==
  /\ pc[p] = "synclog"
  /\ syncLog' = Append(syncLog, [user_id |-> req[p].user,
                                 device_id |-> req[p].deviceId[1],
                                 sync_type |-> "push",
                                 records_synced |-> RecordsSynced(p)])
  /\ pc' = [pc EXCEPT ![p] = "done"]
  /\ loc' = [loc EXCEPT ![p].status = 200,
                        ![p].synced = Some([usageRecords |-> loc[p].usageCount,
                                            activityEvents |-> loc[p].eventCount])]
  /\ UNCHANGED <<devices, usage, events, req, received, last, ever, tries,
                 shotVars, statVars>>

\* --------------------------------------------------- DELETE /devices/:id
\* the request arrives at a handler slot
DeleteReceive(p, RQ) ==
  /\ pc[p] = "idle"
  /\ \E r \in RQ :
       /\ req' = [req EXCEPT ![p] = r]
       /\ pc' = [pc EXCEPT ![p] = "delcheck"]
       /\ loc' = [loc EXCEPT ![p] = NoLoc]
  /\ UNCHANGED <<devices, usage, events, syncLog, received, last, ever, tries,
                 shotVars, statVars>>

\* SELECT * FROM devices WHERE id = ? AND user_id = ?; 404 when there is none
DeleteCheck(p) ==
  /\ pc[p] = "delcheck"
  /\ IF DeviceFound(req[p].deviceId[1], req[p].user)
     THEN pc' = [pc EXCEPT ![p] = "delete"] /\ loc' = loc
     ELSE Respond(p, 404, FALSE)
  /\ UNCHANGED <<devices, usage, events, syncLog, req, received, last, ever, tries,
                 shotVars, statVars>>

\* DELETE FROM devices WHERE id = ?, with the ON DELETE CASCADE of
\* usage_records, screenshots and activity_events in the same statement
DeleteDevice(p) ==
  /\ pc[p] = "delete"
  /\ LET d == req[p].deviceId[1]
     IN /\ devices' = [devices EXCEPT ![d] = None]
        /\ usage' = [k \in UsageKeys |-> IF k[2] = d THEN None ELSE usage[k]]
        /\ ever' = [k \in UsageKeys |-> IF k[2] = d THEN None ELSE ever[k]]
        /\ events' = SelectSeq(events, LAMBDA e : e.device_id # d)
        /\ shots' = {x \in shots : shotDev[x] # d}
        /\ shotDev' = [x \in {y \in shots : shotDev[y] # d} |-> shotDev[x]]
  /\ Respond(p, 200, FALSE)
  /\ UNCHANGED <<syncLog, req, received, last, tries, files, created, upc, uloc, statVars>>

\* pool.query rejects (connection lost, timeout, constraint violation): the
\* awaited statement throws and the catch answers 500
StorageError(p) ==
  /\ pc[p] \in {"check", "usage", "events", "lastsync", "synclog"}
  /\ Respond(p, 500, FALSE)
  /\ UNCHANGED <<devices, usage, events, syncLog, req, received, last, ever, tries,
                 shotVars, statVars>>

\* the response is sent; the handler slot takes the next request
Finish(p) ==
  /\ pc[p] = "done"
  /\ pc' = [pc EXCEPT ![p] = "idle"]
  /\ req' = [req EXCEPT ![p] = NoReq]
  /\ loc' = [loc EXCEPT ![p] = NoLoc]
  /\ tries' = IF tries = None \/ tries[1].req # req[p] THEN tries
              ELSE IF loc[p].status = 200 THEN None
              ELSE Some([tries[1] EXCEPT !.partial = @ \/ loc[p].usageCount > 0])
  /\ UNCHANGED <<devices, usage, events, syncLog, received, last, ever, shotVars, statVars>>

\* ------------------------------------------------- routes/screenshots.js
\* the per-user limit of POST /upload-base64
ScreenshotCap == 200

\* res.status(code).json(...) of an upload handler
UploadRespond(p, code) ==
  /\ upc' = [upc EXCEPT ![p] = "done"]
  /\ uloc' = [uloc EXCEPT ![p].status = code]

\* POST /upload: multer has stored the file; `if (!req.file) return 400`.
\* POST /upload-base64: the two 400 checks, then fs.writeFileSync.
\* device_id is `deviceId || 'unknown'`, taken from the body unchecked.
UploadReceive(p, DS, N) ==
  /\ upc[p] = "idle"
  /\ created + Cardinality({q \in Procs : upc[q] = "insert"}) < N
  /\ \E route \in {"upload", "upload-base64"}, valid \in BOOLEAN, deviceId \in DS :
       IF valid
       THEN /\ upc' = [upc EXCEPT ![p] = "insert"]
            /\ uloc' = [uloc EXCEPT ![p] =
                          [NoUpload EXCEPT !.route = route,
                                           !.device = StrOr(deviceId, "unknown")]]
       ELSE /\ upc' = [upc EXCEPT ![p] = "done"]
            /\ uloc' = [uloc EXCEPT ![p] =
                          [NoUpload EXCEPT !.route = route, !.status = 400]]
  /\ UNCHANGED <<shots, shotDev, files, created, pushVars, statVars>>

\* INSERT INTO screenshots ...; created_at DEFAULT NOW() orders the rows by
\* their insertion. POST /upload answers 201 right after it.
\* An INSERT the foreign key on device_id rejects lands in the catch: 500.
UploadInsert(p) ==
  /\ upc[p] = "insert"
  /\ IF ForeignKeyOk(uloc[p].device)
     THEN /\ created' = created + 1
          /\ shots' = shots \cup {created + 1}
          /\ shotDev' = [x \in shots \cup {created + 1} |->
                          IF x \in shots THEN shotDev[x] ELSE uloc[p].device]
          /\ files' = files \cup {created + 1}
          /\ IF uloc[p].route = "upload"
             THEN UploadRespond(p, 201)
             ELSE /\ upc' = [upc EXCEPT ![p] = "count"]
                  /\ uloc' = uloc
     ELSE /\ UploadRespond(p, 500)
          /\ UNCHANGED <<shots, shotDev, files, created>>
  /\ UNCHANGED <<pushVars, statVars>>

\* SELECT COUNT(*) as c FROM screenshots WHERE user_id = ?;
\* `if (parseInt(count.c) > 200)`
UploadCount(p) ==
  /\ upc[p] = "count"
  /\ IF Cardinality(shots) > ScreenshotCap
     THEN /\ upc' = [upc EXCEPT ![p] = "select"]
          /\ uloc' = [uloc EXCEPT ![p].count = Cardinality(shots)]
     ELSE UploadRespond(p, 201)
  /\ UNCHANGED <<shots, shotDev, files, created, pushVars, statVars>>

\* ORDER BY created_at ASC LIMIT n over the rows S
RECURSIVE Oldest(_, _)
Oldest(S, n) ==
  IF n <= 0 \/ S = {} THEN <<>>
  ELSE LET m == CHOOSE x \in S : \A y \in S : x <= y
       IN <<m>> \o Oldest(S \ {m}, n - 1)

\* faulty variant: fs.unlinkSync without the existsSync test throws ENOENT
\* when the file is missing
UnguardedUnlinkFails(x) == x \notin files

\* `if (fs.existsSync(fp)) fs.unlinkSync(fp)`: both calls are synchronous, no
\* other handler runs between them, so unlinkSync finds the file
UnlinkFails(x) == FALSE

\* the files on disk after `if (fs.existsSync(fp)) fs.unlinkSync(fp)` for row x
Unlinked(x) == files \ {x}

\* the handler's history once it has looked for the file of row x
Looked(p, x) == IF x \in files THEN uloc[p].gone ELSE uloc[p].gone \cup {x}

\* SELECT id, filename ... ORDER BY created_at ASC LIMIT count - 200, then
\* the first iteration up to its await: existsSync, unlinkSync
UploadSelect(p) ==
  /\ upc[p] = "select"
  /\ LET old == Oldest(shots, uloc[p].count - ScreenshotCap)
     IN IF old = <<>>
        THEN /\ UploadRespond(p, 201)
             /\ files' = files
        ELSE IF UnlinkFails(old[1])
        THEN /\ upc' = [upc EXCEPT ![p] = "done"]
             /\ uloc' = [uloc EXCEPT ![p].status = 500, ![p].gone = Looked(p, old[1])]
             /\ files' = files
        ELSE /\ upc' = [upc EXCEPT ![p] = "delete"]
             /\ uloc' = [uloc EXCEPT ![p].oldest = old, ![p].gone = Looked(p, old[1])]
             /\ files' = Unlinked(old[1])
  /\ UNCHANGED <<shots, shotDev, created, pushVars, statVars>>

\* DELETE FROM screenshots WHERE id = ?, then the next iteration up to its
\* await, or the 201 after the last one
UploadDelete(p) ==
  /\ upc[p] = "delete"
  /\ shots' = shots \ {uloc[p].oldest[1]}
  /\ shotDev' = [x \in shots \ {uloc[p].oldest[1]} |-> shotDev[x]]
  /\ LET rest == Tail(uloc[p].oldest)
     IN IF rest = <<>>
        THEN /\ upc' = [upc EXCEPT ![p] = "done"]
             /\ uloc' = [uloc EXCEPT ![p].oldest = rest, ![p].status = 201]
             /\ files' = files
        ELSE IF UnlinkFails(rest[1])
        THEN /\ upc' = [upc EXCEPT ![p] = "done"]
             /\ uloc' = [uloc EXCEPT ![p].oldest = rest, ![p].status = 500,
                                     ![p].gone = Looked(p, rest[1])]
             /\ files' = files
        ELSE /\ upc' = upc
             /\ uloc' = [uloc EXCEPT ![p].oldest = rest, ![p].gone = Looked(p, rest[1])]
             /\ files' = Unlinked(rest[1])
  /\ UNCHANGED <<created, pushVars, statVars>>

\* DELETE /:id arrives for one of the rows IDS
ShotDeleteReceive(p, IDS) ==
  /\ upc[p] = "idle"
  /\ \E x \in IDS :
       /\ upc' = [upc EXCEPT ![p] = "dselect"]
       /\ uloc' = [uloc EXCEPT ![p] = [NoUpload EXCEPT !.route = "delete", !.target = x]]
  /\ UNCHANGED <<shots, shotDev, files, created, pushVars, statVars>>

\* SELECT * FROM screenshots WHERE id = ? AND user_id = ?; 404 when there is
\* none; then existsSync, unlinkSync up to the await of the DELETE
ShotDeleteSelect(p) ==
  /\ upc[p] = "dselect"
  /\ IF uloc[p].target \notin shots
     THEN /\ UploadRespond(p, 404)
          /\ files' = files
     ELSE IF UnlinkFails(uloc[p].target)
     THEN /\ upc' = [upc EXCEPT ![p] = "done"]
          /\ uloc' = [uloc EXCEPT ![p].status = 500,
                                  ![p].gone = Looked(p, uloc[p].target)]
          /\ files' = files
     ELSE /\ upc' = [upc EXCEPT ![p] = "ddelete"]
          /\ uloc' = [uloc EXCEPT ![p].gone = Looked(p, uloc[p].target)]
          /\ files' = Unlinked(uloc[p].target)
  /\ UNCHANGED <<shots, shotDev, created, pushVars, statVars>>

\* DELETE FROM screenshots WHERE id = ?, then res.json
ShotDeleteRun(p) ==
  /\ upc[p] = "ddelete"
  /\ shots' = shots \ {uloc[p].target}
  /\ shotDev' = [x \in shots \ {uloc[p].target} |-> shotDev[x]]
  /\ UploadRespond(p, 200)
  /\ UNCHANGED <<files, created, pushVars, statVars>>

\* the response is sent; the handler slot takes the next request
UploadFinish(p) ==
  /\ upc[p] = "done"
  /\ upc' = [upc EXCEPT ![p] = "idle"]
  /\ uloc' = [uloc EXCEPT ![p] = NoUpload]
  /\ UNCHANGED <<shots, shotDev, files, created, pushVars, statVars>>

\* uploads of one user, handled concurrently
NextShots ==
  \E p \in Procs :
    \/ UploadReceive(p, {Some("d1")}, ScreenshotCap + MaxExtra)
    \/ UploadInsert(p)
    \/ UploadCount(p)
    \/ UploadSelect(p)
    \/ UploadDelete(p)
    \/ UploadFinish(p)

SpecShots == Init /\ [][NextShots]_vars

\* the rows a DELETE /:id names: the two oldest
DeleteIds == {1, 2}

\* uploads (handler p1) racing with DELETE /:id (handler p2)
NextEvict ==
  \/ UploadReceive("p1", {Some("d1")}, ScreenshotCap + MaxExtra)
  \/ UploadInsert("p1")
  \/ UploadCount("p1")
  \/ UploadSelect("p1")
  \/ UploadDelete("p1")
  \/ UploadFinish("p1")
  \/ ShotDeleteReceive("p2", DeleteIds)
  \/ ShotDeleteSelect("p2")
  \/ ShotDeleteRun("p2")
  \/ UploadFinish("p2")
SpecEvict == Init /\ [][NextEvict]_vars

\* --------------------------------------------------- routes/analytics.js
\* A date is the text YYYY-MM-DD; texts of this format order as their days do,
\* so SQL compares the day numbers. 2024-01-01 is day 1.
DayOf(date) ==
  CASE date = "2024-01-01" -> 1
    [] date = "2024-01-02" -> 2
    [] date = "2024-01-08" -> 8

\* new Date(): the days on which a query is made
ClockDays == {1, 2, 8, 9, 15, 16}

\* node-postgres returns SUM and COUNT (bigint) as decimal text
BigintText(n) == [text |-> n]

\* parseInt(x): the number a decimal text spells, NaN (no number) for undefined
ParseInt(x) == IF x = None THEN None ELSE Some(x[1].text)

RECURSIVE SumOver(_, _)
SumOver(S, col) ==
  IF S = {} THEN 0
  ELSE LET k == CHOOSE x \in S : TRUE IN col[k] + SumOver(S \ {k}, col)

\* SUM(column) over the rows S: NULL when there is no row
SqlSum(S, col) == IF S = {} THEN None ELSE Some(SumOver(S, col))

\* the columns total_seconds and visits of the stored rows
SecondsCol == [k \in UsageKeys |-> IF usage[k] = None THEN 0 ELSE usage[k][1].total_seconds[1]]
VisitsCol  == [k \in UsageKeys |-> IF usage[k] = None THEN 0 ELSE usage[k][1].visits[1]]

\* faulty variant of the Daily filter: the user_id condition is missing
DailyWhereAnyUser(k, u, day) == DayOf(k[4]) = day

\* WHERE user_id = ? AND date = ?
DailyWhere(k, u, day) == k[1] = u /\ DayOf(k[4]) = day

DailyRows(u, day) == {k \in UsageKeys : usage[k] # None /\ DailyWhere(k, u, day)}

\* SELECT ..., SUM(total_seconds), SUM(visits) ... GROUP BY domain, title, category
SiteGroups(S) ==
  {[domain |-> g[1], title |-> g[2], category |-> g[3],
    total_seconds |-> BigintText(SumOver({k \in S : <<k[3], usage[k][1].title, usage[k][1].category>> = g}, SecondsCol)),
    visits |-> BigintText(SumOver({k \in S : <<k[3], usage[k][1].title, usage[k][1].category>> = g}, VisitsCol))] :
     g \in {<<k[3], usage[k][1].title, usage[k][1].category>> : k \in S}}

\* SELECT category, SUM(total_seconds), SUM(visits), COUNT(DISTINCT domain) ... GROUP BY category
CategoryGroups(S) ==
  {[category |-> c,
    total_seconds |-> BigintText(SumOver({k \in S : usage[k][1].category = c}, SecondsCol)),
    total_visits |-> BigintText(SumOver({k \in S : usage[k][1].category = c}, VisitsCol)),
    sites |-> BigintText(Cardinality({k[3] : k \in {x \in S : usage[x][1].category = c}}))] :
     c \in {usage[k][1].category : k \in S}}

\* SELECT COALESCE(SUM(total_seconds),0), COALESCE(SUM(visits),0), COUNT(DISTINCT domain)
Totals(S) ==
  [total_seconds |-> BigintText(Coalesce(SqlSum(S, SecondsCol), Some(0))[1]),
   total_visits  |-> BigintText(Coalesce(SqlSum(S, VisitsCol), Some(0))[1]),
   total_domains |-> BigintText(Cardinality({k[3] : k \in S}))]

\* GET /daily: `req.query.date || new Date().toISOString().slice(0, 10)`
DailyReceive ==
  /\ view.route = ""
  /\ \E u \in Users, date \in {None} \cup {Some(DayOf(d)) : d \in Dates}, today \in ClockDays :
       view' = [route |-> "daily", user |-> u, step |-> "sites",
                date |-> IF date # None THEN date[1] ELSE today,
                sites |-> {}, totals |-> None, categories |-> {}, response |-> None]
  /\ UNCHANGED <<pushVars, shotVars>>

\* the five statements of GET /daily, one await each, then res.json with
\* totals: { totalSeconds: parseInt(totals?.total_seconds)||0, ... }; the
\* rows of deviceBreakdown and the screenshot count are read and passed on
DailyStep ==
  /\ view.route = "daily"
  /\ LET S == DailyRows(view.user, view.date)
     IN \/ /\ view.step = "sites"
           /\ view' = [view EXCEPT !.step = "totals", !.sites = SiteGroups(S)]
        \/ /\ view.step = "totals"
           /\ view' = [view EXCEPT !.step = "categories", !.totals = Some(Totals(S))]
        \/ /\ view.step = "categories"
           /\ view' = [view EXCEPT !.step = "devices", !.categories = CategoryGroups(S)]
        \/ /\ view.step = "devices"
           /\ view' = [view EXCEPT !.step = "screenshots"]
        \/ /\ view.step = "screenshots"
           /\ view' = [view EXCEPT !.step = "done", !.response =
                Some([totalSeconds |-> NumOr(ParseInt(Some(view.totals[1].total_seconds)), 0),
                      totalVisits  |-> NumOr(ParseInt(Some(view.totals[1].total_visits)), 0),
                      totalDomains |-> NumOr(ParseInt(Some(view.totals[1].total_domains)), 0)])]
  /\ UNCHANGED <<pushVars, shotVars>>

\* new Date(now.getTime() - n * 86400000).toISOString().slice(0, 10)
DaysBefore(today, n) == today - n

\* WHERE user_id = ? AND date >= ?
SinceWhere(k, u, start) == k[1] = u /\ DayOf(k[4]) >= start

\* WHERE user_id = ? AND date >= ? AND date < ?
BetweenWhere(k, u, start, end) ==
  k[1] = u /\ DayOf(k[4]) >= start /\ DayOf(k[4]) < end

SinceRows(u, start) == {k \in UsageKeys : usage[k] # None /\ SinceWhere(k, u, start)}
BetweenRows(u, start, end) ==
  {k \in UsageKeys : usage[k] # None /\ BetweenWhere(k, u, start, end)}

\* SELECT COALESCE(SUM(total_seconds),0), COALESCE(SUM(visits),0),
\* COUNT(DISTINCT domain), COUNT(DISTINCT date)
WeekTotals(S) ==
  [total_seconds |-> BigintText(Coalesce(SqlSum(S, SecondsCol), Some(0))[1]),
   total_visits  |-> BigintText(Coalesce(SqlSum(S, VisitsCol), Some(0))[1]),
   total_domains |-> BigintText(Cardinality({k[3] : k \in S})),
   active_days   |-> BigintText(Cardinality({k[4] : k \in S}))]

\* SELECT category, SUM(total_seconds) ... GROUP BY category
WeekCategories(S) ==
  {[category |-> c,
    total_seconds |-> BigintText(SumOver({k \in S : usage[k][1].category = c}, SecondsCol))] :
     c \in {usage[k][1].category : k \in S}}

\* GET /trends: now, thisWeekStart, lastWeekStart
TrendsReceive ==
  /\ view.route = ""
  /\ \E u \in Users, today \in ClockDays :
       view' = [route |-> "trends", user |-> u, step |-> "thisWeek", today |-> today,
                thisWeekStart |-> DaysBefore(today, 7),
                lastWeekStart |-> DaysBefore(today, 14),
                thisWeek |-> None, lastWeek |-> None, thisCats |-> {}, lastCats |-> {}]
  /\ UNCHANGED <<pushVars, shotVars>>

\* the four statements of GET /trends, one await each; res.json passes the
\* rows on as they are
TrendsStep ==
  /\ view.route = "trends"
  /\ LET this == SinceRows(view.user, view.thisWeekStart)
         prev == BetweenRows(view.user, view.lastWeekStart, view.thisWeekStart)
     IN \/ /\ view.step = "thisWeek"
           /\ view' = [view EXCEPT !.step = "lastWeek", !.thisWeek = Some(WeekTotals(this))]
        \/ /\ view.step = "lastWeek"
           /\ view' = [view EXCEPT !.step = "thisCats", !.lastWeek = Some(WeekTotals(prev))]
        \/ /\ view.step = "thisCats"
           /\ view' = [view EXCEPT !.step = "lastCats", !.thisCats = WeekCategories(this)]
        \/ /\ view.step = "lastCats"
           /\ view' = [view EXCEPT !.step = "done", !.lastCats = WeekCategories(prev)]
  /\ UNCHANGED <<pushVars, shotVars>>

\* req.query.period and req.query.limit: absent, or the text of a number
QueryNumbers(N) == {None} \cup {Some(BigintText(n)) : n \in N}

\* Math.min(parseInt(req.query.period) || 7, 90), Math.min(parseInt(req.query.limit) || 20, 100)
PeriodDays(period) == Min(NumOr(ParseInt(period), 7), 90)
LimitRows(limit) == Min(NumOr(ParseInt(limit), 20), 100)

\* SELECT domain, title, category, SUM(total_seconds), SUM(visits),
\* COUNT(DISTINCT date) ... GROUP BY domain, title, category
TopGroups(S) ==
  {[domain |-> g[1], title |-> g[2], category |-> g[3],
    total_seconds |-> BigintText(SumOver({k \in S : <<k[3], usage[k][1].title, usage[k][1].category>> = g}, SecondsCol)),
    total_visits |-> BigintText(SumOver({k \in S : <<k[3], usage[k][1].title, usage[k][1].category>> = g}, VisitsCol)),
    active_days |-> BigintText(Cardinality({k[4] : k \in {x \in S : <<x[3], usage[x][1].title, usage[x][1].category>> = g}}))] :
     g \in {<<k[3], usage[k][1].title, usage[k][1].category>> : k \in S}}

\* ORDER BY total_seconds DESC LIMIT n: every result the statement can give,
\* groups of equal total_seconds coming in any order
OrderedLimit(G, n) ==
  LET m == Min(n, Cardinality(G))
  IN {q \in [1..m -> G] :
        /\ \A i, j \in 1..m : i < j =>
             (q[i] # q[j] /\ q[i].total_seconds.text >= q[j].total_seconds.text)
        /\ \A g \in G : (\A i \in 1..m : q[i] # g) =>
             \A i \in 1..m : q[i].total_seconds.text >= g.total_seconds.text}

\* GET /top-domains: days, limit, since
TopReceive ==
  /\ view.route = ""
  /\ \E u \in Users, today \in ClockDays,
        period \in QueryNumbers({1, 7, 365}), limit \in QueryNumbers({1, 2, 500}) :
       view' = [route |-> "top-domains", user |-> u, step |-> "domains", today |-> today,
                period |-> period, limit |-> limit,
                days |-> PeriodDays(period), rows |-> LimitRows(limit),
                since |-> DaysBefore(today, PeriodDays(period)), domains |-> <<>>]
  /\ UNCHANGED <<pushVars, shotVars>>

\* the statement of GET /top-domains, then res.json({ domains, period: days })
TopStep ==
  /\ view.route = "top-domains" /\ view.step = "domains"
  /\ \E q \in OrderedLimit(TopGroups(SinceRows(view.user, view.since)), view.rows) :
       view' = [view EXCEPT !.step = "done", !.domains = q]
  /\ UNCHANGED <<pushVars, shotVars>>

\* the response is sent
ViewFinish ==
  /\ view.route # "" /\ view.step = "done"
  /\ view' = NoView
  /\ UNCHANGED <<pushVars, shotVars>>

\* ---------------------------------------------------------- payload sets
OptNat(n) == {None} \cup {Some(i) : i \in 0..n}

\* payloads that carry both counters, set
SetCounterPayloads ==
  {[EmptyData EXCEPT !.totalSeconds = Some(s), !.visits = Some(v)] :
     s \in 0..MaxSeconds, v \in 0..MaxVisits}

\* payloads that carry the two counters
CounterPayloads ==
  {[EmptyData EXCEPT !.totalSeconds = s, !.visits = v] :
     s \in OptNat(MaxSeconds), v \in OptNat(MaxVisits)}

\* ---------------------------------------------------------- specifications
\* payloads that carry the visit window
OptTime == {None, Some(ZeroTime)} \cup {Some(t) : t \in IsoTimes}
TimePayloads ==
  {[EmptyData EXCEPT !.firstVisit = f, !.lastVisit = l] : f \in OptTime, l \in OptTime}

\* payloads that carry counters and visit window together
FullPayloads ==
  {[EmptyData EXCEPT !.totalSeconds = Some(n), !.visits = Some(v),
                     !.firstVisit = Some(t), !.lastVisit = Some(t)] :
     n \in {MaxSeconds}, v \in {MaxVisits}, t \in IsoTimes}

\* payloads that carry the texts
TextPayloads ==
  {[EmptyData EXCEPT !.title = t, !.category = c] :
     t \in {None, Some(""), Some("Docs")}, c \in {None, Some("Work")}}

\* a payload with a timestamp Date cannot parse
BadPayloads == {[EmptyData EXCEPT !.firstVisit = Some(BadTime)]}

\* every request body shape
AllRequests ==
  {[user |-> u, deviceId |-> d, usageKind |-> k, evLen |-> n, report |-> None] :
     u \in Users, d \in DeviceInputs, k \in UsageKinds, n \in 0..MaxEvents}

\* up to N requests of the handlers PS with bodies RQ, whose reports range
\* over the (date, domain) pairs PR with payloads P
PushNext(PS, N, RQ, PR, P) ==
  \E p \in PS :
    \/ Receive(p, RQ, N)
    \/ DeviceCheck(p)
    \/ UsageStep(p, PR, P)
    \/ EventStep(p)
    \/ LastSync(p)
    \/ SyncLog(p)
    \/ Finish(p)

\* requests of u1 for its own device d1
OwnRequests ==
  {[user |-> "u1", deviceId |-> Some("d1"), usageKind |-> "object", evLen |-> 0,
    report |-> None]}

OnePair == {<<"2024-01-01", "a.com">>}

\* a payload as a device sends it
PlainData ==
  [EmptyData EXCEPT !.title = Some("Docs"), !.totalSeconds = Some(1), !.visits = Some(1)]

\* one handler, every request body, reports over two dates
Next == PushNext({"p1"}, MaxBodies, AllRequests, Pairs, BadPayloads \cup {EmptyData, PlainData})

\* one handler, one key, every payload
NextMerge == PushNext({"p1"}, MaxPushes, OwnRequests, OnePair,
                      CounterPayloads \cup TimePayloads \cup TextPayloads
                        \cup FullPayloads)
SpecMerge == Init /\ [][NextMerge]_vars

\* two handlers race on one key
NextRace == PushNext(Procs, MaxPushes, OwnRequests, OnePair, SetCounterPayloads)
SpecRace == Init /\ [][NextRace]_vars

Spec == Init /\ [][Next]_vars

\* payloads that differ in every field, and the empty one
OrderPayloads ==
  {[EmptyData EXCEPT !.title = Some(n), !.category = Some("Work"),
                     !.totalSeconds = Some(c[1]), !.visits = Some(c[2]),
                     !.firstVisit = Some(t), !.lastVisit = Some(t)] :
     n \in {"Docs", "Mail"},
     c \in {<<1, MaxVisits>>, <<MaxSeconds, 1>>},
     t \in {[kind |-> "iso", local |-> 1, off |-> 0],
            [kind |-> "iso", local |-> MaxTime, off |-> 0]}}
    \cup {EmptyData}

\* two handlers race on one key with payloads that differ in every field
NextOrder == PushNext(Procs, MaxPushes, OwnRequests, OnePair, OrderPayloads)
SpecOrder == Init /\ [][NextOrder]_vars

\* payloads of the rows the analytics routes read
StatPayloads ==
  {[EmptyData EXCEPT !.title = Some("Docs"), !.category = Some("Work"),
                     !.totalSeconds = Some(300), !.visits = Some(MaxVisits)],
   [EmptyData EXCEPT !.totalSeconds = Some(300), !.visits = Some(1)],
   [EmptyData EXCEPT !.totalSeconds = Some(500), !.visits = Some(1)]}

\* keys under which pushes store rows: the device belongs to the user
StatKeys ==
  {k \in UsageKeys :
     /\ OwnerOf(k[2]) = k[1]
     /\ k[2] = "d2" => (k[3] = "a.com" /\ k[4] = "2024-01-01")
     /\ k[2] = "d3" => k[3] = "a.com"
     /\ k[4] = "2024-01-08" => (k[2] = "d1" /\ k[3] = "a.com")}

\* a table of up to MaxRows rows, each as one push of a payload inserts it
InitStats ==
  /\ \E K \in {X \in SUBSET StatKeys : Cardinality(X) <= MaxRows} :
       \E t \in [K -> StatPayloads] :
         /\ usage = [k \in UsageKeys |->
                       IF k \in K THEN Some(Excluded(k[3], t[k])) ELSE None]
         /\ ever = [k \in UsageKeys |->
                      IF k \in K THEN Extremes(None, t[k]) ELSE None]
  /\ devices = [d \in DeviceIds |-> Some([user_id |-> OwnerOf(d), last_sync_at |-> None])]
  /\ events = <<>>
  /\ syncLog = <<>>
  /\ pc = [p \in Procs |-> "idle"]
  /\ req = [p \in Procs |-> NoReq]
  /\ loc = [p \in Procs |-> NoLoc]
  /\ received = 0
  /\ last = None
  /\ tries = None
  /\ view = NoView
  /\ shots = {}
  /\ shotDev = [x \in {} |-> ""]
  /\ files = {}
  /\ created = 0
  /\ upc = [p \in Procs |-> "idle"]
  /\ uloc = [p \in Procs |-> NoUpload]

\* GET /daily over a stored table
NextDaily ==
  \/ DailyReceive
  \/ DailyStep
  \/ ViewFinish
SpecDaily == InitStats /\ [][NextDaily]_vars

\* GET /trends over a stored table
NextTrends ==
  \/ TrendsReceive
  \/ TrendsStep
  \/ ViewFinish
SpecTrends == InitStats /\ [][NextTrends]_vars

\* GET /top-domains over a stored table
NextTop ==
  \/ TopReceive
  \/ TopStep
  \/ ViewFinish
SpecTop == InitStats /\ [][NextTop]_vars

\* requests whose activity events are none, a few, 200, more than 200
EventRequests ==
  {[user |-> "u1", deviceId |-> Some("d1"), usageKind |-> "object", evLen |-> n,
    report |-> None] : n \in {0, MaxEvents, EventCap, EventCap + MaxEvents}}

\* one handler, event lists around the cap
NextEvents == PushNext({"p1"}, MaxBodies, EventRequests, OnePair, {PlainData})
SpecEvents == Init /\ [][NextEvents]_vars

\* reports a device re-sends: both dates of one domain, counters and window
RetryPayloads ==
  {[EmptyData EXCEPT !.totalSeconds = Some(c[1]), !.visits = Some(c[2]),
                     !.firstVisit = Some(t), !.lastVisit = Some(t)] :
     c \in {<<1, MaxVisits>>, <<MaxSeconds, 1>>},
     t \in {[kind |-> "iso", local |-> 1, off |-> 0],
            [kind |-> "iso", local |-> MaxTime, off |-> 0]}}
RetryRequests ==
  {[user |-> "u1", deviceId |-> Some("d1"), usageKind |-> "object", evLen |-> 0,
    report |-> Some(r)] : r \in [Pairs -> RetryPayloads]}

\* one handler, whole reports, statements that may fail
NextRetry ==
  \/ PushNext({"p1"}, MaxPushes, RetryRequests, Pairs, RetryPayloads)
  \/ StorageError("p1")
SpecRetry == Init /\ [][NextRetry]_vars

\* reports of a single entry, for one of the two dates
FramePayloads == {PlainData, [EmptyData EXCEPT !.totalSeconds = Some(MaxSeconds)]}
FrameReports == UNION {[{pair} -> FramePayloads] : pair \in Pairs}

\* pushes of u1 for its devices d1 and d3 and for d2 of u2, and of u2 for d2
FrameRequests ==
  {[user |-> ud[1], deviceId |-> Some(ud[2]), usageKind |-> "object", evLen |-> 0,
    report |-> Some(r)] :
     ud \in {<<"u1", "d1">>, <<"u1", "d3">>, <<"u1", "d2">>, <<"u2", "d2">>},
     r \in FrameReports}

\* two handlers, two users, three devices
NextFrame == PushNext(Procs, MaxBodies, FrameRequests, Pairs, FramePayloads)
SpecFrame == Init /\ [][NextFrame]_vars

\* pushes of u1 for d1: every shape of usageData, with and without events
SideRequests ==
  {[user |-> "u1", deviceId |-> Some("d1"), usageKind |-> kind, evLen |-> n,
    report |-> None] : kind \in UsageKinds, n \in {0, MaxEvents}}

\* one handler, reports of up to two entries, events
NextSide == PushNext({"p1"}, MaxPushes, SideRequests, Pairs, {PlainData})
SpecSide == Init /\ [][NextSide]_vars

\* pushes of u1 for d1, with and without events
CascadeRequests ==
  {[user |-> "u1", deviceId |-> Some("d1"), usageKind |-> "object", evLen |-> n,
    report |-> None] : n \in {0, MaxEvents}}

\* deletions u1 asks for: its own device d1, and d2 of another user
DeleteRequests ==
  {[NoReq EXCEPT !.user = "u1", !.deviceId = Some(d)] : d \in {"d1", "d2"}}

\* pushes (handler p1) and uploads racing with deletions (handler p2)
NextCascade ==
  \/ PushNext({"p1"}, MaxBodies, CascadeRequests, OnePair, {PlainData})
  \/ DeleteReceive("p2", DeleteRequests)
  \/ DeleteCheck("p2")
  \/ DeleteDevice("p2")
  \/ Finish("p2")
  \/ UploadReceive("p1", DeviceInputs, MaxEvents)
  \/ UploadInsert("p1")
  \/ UploadCount("p1")
  \/ UploadFinish("p1")
SpecCascade == Init /\ [][NextCascade]_vars

\* ------------------------------------------------------------------ claims
CurKey(p) == KeyOf(p, loc[p].cur[1].pair)
Merged(p) == pc[p] = "usage" /\ loc[p].cur # None
SecondsIn(p) == CounterOf(loc[p].cur[1].data.totalSeconds)
VisitsIn(p) == CounterOf(loc[p].cur[1].data.visits)
SecondsOf(slot) == IF slot = None THEN 0 ELSE slot[1].total_seconds[1]
VisitsOfSlot(slot) == IF slot = None THEN 0 ELSE slot[1].visits[1]

\* C1: no step lowers the stored totalSeconds or visits of a usage record, and
\* no step removes the record.
C1_Monotone ==
  [][\A k \in UsageKeys :
       usage[k] # None =>
         /\ usage'[k] # None
         /\ usage'[k][1].total_seconds[1] >= usage[k][1].total_seconds[1]
         /\ usage'[k][1].visits[1] >= usage[k][1].visits[1]]_vars

\* a push with smaller counters has been merged into an existing record
C1_Witness ==
  \E p \in Procs :
    /\ Merged(p)
    /\ loc[p].cur[1].before # None
    /\ SecondsIn(p) < SecondsOf(loc[p].cur[1].before)
    /\ VisitsIn(p) < VisitsOfSlot(loc[p].cur[1].before)

\* C2: when an upsert repeats the previous one (same key, same payload: the
\* report pushed again), totalSeconds, visits, firstVisit and lastVisit of the
\* record are what they were before it.
C2_Idempotent ==
  \A p \in Procs :
    (Merged(p) /\ loc[p].cur[1].repeat) =>
      LET row == usage[CurKey(p)][1]
          old == loc[p].cur[1].before
      IN /\ old # None
         /\ row.total_seconds = old[1].total_seconds
         /\ row.visits = old[1].visits
         /\ row.first_visit = old[1].first_visit
         /\ row.last_visit = old[1].last_visit

\* a report carrying counters and a visit window has been pushed twice
C2_Witness ==
  \E p \in Procs :
    /\ Merged(p)
    /\ loc[p].cur[1].repeat
    /\ loc[p].cur[1].data \in FullPayloads

\* C3: a record exists exactly when a payload was merged for its key, and its
\* totalSeconds is the largest totalSeconds and its visits the largest visits
\* of all payloads merged for the key, a missing or falsy value counting as 0.
C3_MaxMerge ==
  \A k \in UsageKeys :
    /\ (usage[k] = None) <=> (ever[k] = None)
    /\ usage[k] # None =>
         /\ usage[k][1].total_seconds = Some(ever[k][1].maxSeconds)
         /\ usage[k][1].visits = Some(ever[k][1].maxVisits)

\* (more seconds, fewer visits) then (fewer seconds, more visits): the record
\* keeps the seconds of the first and takes the visits of the second
C3_Witness ==
  \E p \in Procs :
    /\ Merged(p)
    /\ loc[p].cur[1].before # None
    /\ SecondsIn(p) < SecondsOf(loc[p].cur[1].before)
    /\ VisitsIn(p) > VisitsOfSlot(loc[p].cur[1].before)
    /\ usage[CurKey(p)][1].total_seconds = loc[p].cur[1].before[1].total_seconds
    /\ usage[CurKey(p)][1].visits = Some(VisitsIn(p))

Max4(a, b, c, d) == Max(Max(a, b), Max(c, d))

\* C4: when two handlers have both run their upsert for the same key, the
\* record's totalSeconds is the largest of the two incoming values and of the
\* values the two statements found, and likewise for visits.
C4_NoLostUpdate ==
  \A p, q \in Procs :
    (p # q /\ Merged(p) /\ Merged(q) /\ CurKey(p) = CurKey(q)) =>
      LET row == usage[CurKey(p)][1]
          bp == loc[p].cur[1].before
          bq == loc[q].cur[1].before
      IN /\ row.total_seconds[1] =
              Max4(SecondsIn(p), SecondsIn(q), SecondsOf(bp), SecondsOf(bq))
         /\ row.visits[1] =
              Max4(VisitsIn(p), VisitsIn(q), VisitsOfSlot(bp), VisitsOfSlot(bq))

\* two handlers raced on an existing record: p raised it, then q merged less
C4_Witness ==
  \E p, q \in Procs :
    /\ p # q /\ Merged(p) /\ Merged(q) /\ CurKey(p) = CurKey(q)
    /\ loc[p].cur[1].before # None
    /\ SecondsIn(p) > SecondsOf(loc[p].cur[1].before)
    /\ SecondsOf(loc[q].cur[1].before) = SecondsIn(p)
    /\ SecondsIn(q) < SecondsIn(p)
    /\ pc[p] = "usage" /\ pc[q] = "usage"

Tables == <<devices, usage, events, syncLog>>

\* the request handler p is working on names no device of its user
NotOwned(p) ==
  /\ pc[p] # "idle"
  /\ TruthyStr(req[p].deviceId)
  /\ ~(/\ req[p].deviceId[1] \in DeviceIds
        /\ devices[req[p].deviceId[1]] # None
        /\ OwnerOf(req[p].deviceId[1]) = req[p].user)

\* C5: while the only request in flight names a device that is not a device of
\* its user, no step changes usage_records, activity_events, sync_log or
\* devices (last_sync_at), and the request ends with 404 Device not found.
C5_CheckBeforeWrite ==
  [][\A p \in Procs :
       (NotOwned(p) \/ NotOwned(p)') =>
         /\ UNCHANGED Tables
         /\ pc'[p] = "done" => loc'[p].status = 404]_vars

\* u1 pushed a report and events for d2, the device of u2, and got 404, with
\* records of an earlier push in the store
C5_Witness ==
  \E p \in Procs :
    /\ pc[p] = "done"
    /\ loc[p].status = 404
    /\ req[p].user = "u1" /\ req[p].deviceId = Some("d2")
    /\ req[p].usageKind = "object" /\ req[p].evLen > 0
    /\ \E k \in UsageKeys : usage[k] # None

\* C6: a push whose report is not of the expected shape ends with an error
\* and has merged no entry.
C6_RejectWhole ==
  \A p \in Procs :
    (pc[p] = "done" /\ loc[p].malformed) =>
      /\ loc[p].status >= 400
      /\ loc[p].usageCount = 0

\* a push failed with 500 on a malformed entry after it merged a valid one
C6_PartialMerge ==
  \E p \in Procs :
    /\ pc[p] = "done" /\ loc[p].malformed
    /\ loc[p].status = 500
    /\ loc[p].usageCount > 0

\* C9: after an upsert into an existing record whose payload carries no title
\* (no category), the record's title (category) is what it was before.
C9_KeepText ==
  \A p \in Procs :
    (Merged(p) /\ loc[p].cur[1].before # None) =>
      LET row == usage[CurKey(p)][1]
          old == loc[p].cur[1].before[1]
          data == loc[p].cur[1].data
      IN /\ data.title = None => row.title = old.title
         /\ data.category = None => row.category = old.category

\* a payload without title and category was merged into a record that had both
C9_Overwritten ==
  \E p \in Procs :
    /\ Merged(p) /\ loc[p].cur[1].before # None
    /\ loc[p].cur[1].data.title = None /\ loc[p].cur[1].data.category = None
    /\ loc[p].cur[1].before[1].title = Some("Docs")
    /\ loc[p].cur[1].before[1].category = Some("Work")
    /\ usage[CurKey(p)][1].title # Some("Docs")

\* C10: firstVisit of a record is the earliest and lastVisit the latest of the
\* timestamps merged for its key, null when none was; and an upsert leaves
\* firstVisit no later and lastVisit no earlier than it found them.
C10_VisitWindow ==
  /\ \A k \in UsageKeys :
       usage[k] # None =>
         /\ usage[k][1].first_visit = ever[k][1].minFirst
         /\ usage[k][1].last_visit = ever[k][1].maxLast
  /\ \A p \in Procs :
       (Merged(p) /\ loc[p].cur[1].before # None) =>
         LET row == usage[CurKey(p)][1]
             old == loc[p].cur[1].before[1]
         IN /\ old.first_visit # None =>
                 (row.first_visit # None /\ row.first_visit[1] <= old.first_visit[1])
            /\ old.last_visit # None =>
                 (row.last_visit # None /\ row.last_visit[1] >= old.last_visit[1])

\* a payload with no firstVisit and a later lastVisit was merged into a record
\* that had both: firstVisit stayed, lastVisit moved
C10_Witness ==
  \E p \in Procs :
    /\ Merged(p) /\ loc[p].cur[1].before # None
    /\ loc[p].cur[1].before[1].first_visit # None
    /\ loc[p].cur[1].before[1].last_visit # None
    /\ loc[p].cur[1].data.firstVisit = None
    /\ InstantOf(loc[p].cur[1].data.lastVisit) # None
    /\ InstantOf(loc[p].cur[1].data.lastVisit)[1] > loc[p].cur[1].before[1].last_visit[1]
    /\ usage[CurKey(p)][1].first_visit = loc[p].cur[1].before[1].first_visit
    /\ usage[CurKey(p)][1].last_visit = InstantOf(loc[p].cur[1].data.lastVisit)

\* the four merged fields of a row
Merge4(row) == <<row.total_seconds, row.visits, row.first_visit, row.last_visit>>

\* C11: when a push of a report succeeds, after any number of failed attempts
\* of the same report, every record of the report has the totalSeconds,
\* visits, firstVisit and lastVisit that one upsert of its entry into the
\* table as the first attempt found it produces.
C11_RetrySafe ==
  \A p \in Procs :
    (pc[p] = "done" /\ loc[p].status = 200 /\ tries # None /\ tries[1].req = req[p]) =>
      \A pair \in DOMAIN req[p].report[1] :
        LET k == KeyOf(p, pair)
            once == Upsert(tries[1].start[k], Excluded(pair[2], req[p].report[1][pair]))
        IN usage[k] # None /\ Merge4(usage[k][1]) = Merge4(once[1])

\* a push failed after it merged an entry into an existing record, and its
\* retry succeeded on a table that differs from the one the first attempt met
C11_Witness ==
  \E p \in Procs :
    /\ pc[p] = "done" /\ loc[p].status = 200
    /\ tries # None /\ tries[1].req = req[p] /\ tries[1].partial
    /\ \E k \in UsageKeys :
         /\ tries[1].start[k] # None
         /\ Merge4(usage[k][1]) # Merge4(tries[1].start[k][1])

\* q ran its upsert on the row that p's upsert left, and the record is as q's
\* upsert left it
AppliedAfter(p, q) ==
  /\ p # q /\ Merged(p) /\ Merged(q) /\ CurKey(p) = CurKey(q)
  /\ loc[q].cur[1].before =
       Upsert(loc[p].cur[1].before, Excluded(loc[p].cur[1].pair[2], loc[p].cur[1].data))
  /\ usage[CurKey(q)] =
       Upsert(loc[q].cur[1].before, Excluded(loc[q].cur[1].pair[2], loc[q].cur[1].data))

\* the row that applying q's payload first and p's second gives
OtherOrder(p, q) ==
  LET dom == loc[p].cur[1].pair[2]
  IN Upsert(Upsert(loc[p].cur[1].before, Excluded(dom, loc[q].cur[1].data)),
            Excluded(dom, loc[p].cur[1].data))[1]

\* C12 as stated: when two payloads were applied to one key one after the
\* other, the whole record (title and category included) is the one the
\* opposite order gives.
C12_Commutes ==
  \A p, q \in Procs :
    AppliedAfter(p, q) => usage[CurKey(p)][1] = OtherOrder(p, q)

\* C12 amended: totalSeconds, visits, firstVisit and lastVisit of the record
\* are those the opposite order gives; a title or category that the payload
\* applied last carries is the record's title or category.
C12_CommutesMerged ==
  \A p, q \in Procs :
    AppliedAfter(p, q) =>
      LET row == usage[CurKey(p)][1]
          data == loc[q].cur[1].data
      IN /\ Merge4(row) = Merge4(OtherOrder(p, q))
         /\ TruthyStr(data.title) => row.title = data.title
         /\ TruthyStr(data.category) => row.category = data.category

\* two payloads that differ in counters, timestamps and title were applied
\* one after the other to an existing record, and each changed it
C12_Witness ==
  \E p, q \in Procs :
    /\ AppliedAfter(p, q)
    /\ loc[p].cur[1].before # None
    /\ Merge4(usage[CurKey(p)][1]) # Merge4(loc[q].cur[1].before[1])
    /\ Merge4(loc[q].cur[1].before[1]) # Merge4(loc[p].cur[1].before[1])
    /\ Merge4(Excluded("a.com", loc[p].cur[1].data)) # Merge4(Excluded("a.com", loc[q].cur[1].data))
    /\ loc[p].cur[1].data.title # loc[q].cur[1].data.title

\* what the records of user u dated day add up to, device by device
SecondsOn(u, day) ==
  LET at(d, dom, date) ==
        IF DayOf(date) = day THEN SecondsOf(usage[<<u, d, dom, date>>]) ELSE 0
      dev(d) == at(d, "a.com", "2024-01-01") + at(d, "a.com", "2024-01-02")
                  + at(d, "a.com", "2024-01-08") + at(d, "b.com", "2024-01-01")
                  + at(d, "b.com", "2024-01-02") + at(d, "b.com", "2024-01-08")
  IN dev("d1") + dev("d2") + dev("d3")
VisitsOn(u, day) ==
  LET at(d, dom, date) ==
        IF DayOf(date) = day THEN VisitsOfSlot(usage[<<u, d, dom, date>>]) ELSE 0
      dev(d) == at(d, "a.com", "2024-01-01") + at(d, "a.com", "2024-01-02")
                  + at(d, "a.com", "2024-01-08") + at(d, "b.com", "2024-01-01")
                  + at(d, "b.com", "2024-01-02") + at(d, "b.com", "2024-01-08")
  IN dev("d1") + dev("d2") + dev("d3")

\* C13: the totals of a Daily response are the sums of totalSeconds and of
\* visits over the records of the requesting user with the requested date, on
\* whatever device; they are the number 0 when there is no such record.
C13_DailyTotals ==
  (view.route = "daily" /\ view.step = "done") =>
    /\ view.response[1].totalSeconds = SecondsOn(view.user, view.date)
    /\ view.response[1].totalVisits = VisitsOn(view.user, view.date)

\* Daily was answered for u1 and day 1, with a record of each of u1's two
\* devices on that day, a record of u1 on the other day and one of u2
C13_Witness ==
  /\ view.route = "daily" /\ view.step = "done"
  /\ view.user = "u1" /\ view.date = 1
  /\ usage[<<"u1", "d1", "a.com", "2024-01-01">>] # None
  /\ usage[<<"u1", "d3", "a.com", "2024-01-01">>] # None
  /\ \/ usage[<<"u1", "d1", "a.com", "2024-01-02">>] # None
     \/ usage[<<"u2", "d2", "a.com", "2024-01-01">>] # None
  /\ view.response[1].totalSeconds > 0

\* the sum of f over the seven days that start on day s
Week(f(_), s) == f(s) + f(s + 1) + f(s + 2) + f(s + 3) + f(s + 4) + f(s + 5) + f(s + 6)

\* the calendar dates up to today that the two filters of Trends accept
ThisWeekDates ==
  {d \in (view.today - 21)..view.today : d >= view.thisWeekStart}
LastWeekDates ==
  {d \in (view.today - 21)..view.today : d >= view.lastWeekStart /\ d < view.thisWeekStart}

\* C14: in a Trends response 'this week' holds the sums over the user's
\* records of the trailing seven calendar days (the seven days that end today,
\* or the seven that end yesterday) and 'last week' the sums over the seven
\* days before those; the two windows are disjoint and each covers exactly
\* seven calendar dates.
C14_TrendWindows ==
  (view.route = "trends" /\ view.step = "done") =>
    LET secs(d) == SecondsOn(view.user, d)
        vis(d) == VisitsOn(view.user, d)
    IN /\ \E s \in {view.today - 7, view.today - 6} :
            /\ view.thisWeek[1].total_seconds = BigintText(Week(secs, s))
            /\ view.thisWeek[1].total_visits = BigintText(Week(vis, s))
            /\ view.lastWeek[1].total_seconds = BigintText(Week(secs, s - 7))
            /\ view.lastWeek[1].total_visits = BigintText(Week(vis, s - 7))
       /\ ThisWeekDates \cap LastWeekDates = {}
       /\ Cardinality(ThisWeekDates) = 7
       /\ Cardinality(LastWeekDates) = 7

\* Trends was asked on day 8 with records of the user on day 1 and day 8:
\* 'this week' adds up both, the eight days 1 to 8
C14_EightDays ==
  /\ view.route = "trends" /\ view.step = "done"
  /\ view.today = 8
  /\ SecondsOn(view.user, 1) > 0 /\ SecondsOn(view.user, 8) > 0
  /\ view.thisWeek[1].total_seconds =
       BigintText(SecondsOn(view.user, 1) + SecondsOn(view.user, 2) + SecondsOn(view.user, 8))
  /\ view.thisWeek[1].active_days = BigintText(2)

\* what the records of user u for domain dom dated day s or later add up to
DomainSecondsSince(u, dom, s) ==
  LET at(d, date) ==
        IF DayOf(date) >= s THEN SecondsOf(usage[<<u, d, dom, date>>]) ELSE 0
      dev(d) == at(d, "2024-01-01") + at(d, "2024-01-02") + at(d, "2024-01-08")
  IN dev("d1") + dev("d2") + dev("d3")

\* C15: a TopDomains response lists domains, each once, with the totalSeconds
\* of the user's records of that domain on all devices within the trailing
\* min(period, 90) days (counted from today back, today included or not), in
\* descending order, at most min(limit, 100) of them, and no domain left out
\* has more seconds than a listed one.
C15_TopDomains ==
  (view.route = "top-domains" /\ view.step = "done") =>
    LET q == view.domains
        days == IF view.period = None THEN 7 ELSE Min(view.period[1].text, 90)
        most == IF view.limit = None THEN 20 ELSE Min(view.limit[1].text, 100)
    IN /\ Len(q) <= most
       /\ \A i, j \in 1..Len(q) : i < j =>
            (q[i].domain # q[j].domain /\ q[i].total_seconds.text >= q[j].total_seconds.text)
       /\ \E s \in {view.today - days, view.today - days + 1} :
            /\ \A i \in 1..Len(q) :
                 q[i].total_seconds.text = DomainSecondsSince(view.user, q[i].domain, s)
            /\ \A dom \in Domains :
                 (DomainSecondsSince(view.user, dom, s) > 0
                    /\ \A i \in 1..Len(q) : q[i].domain # dom) =>
                   /\ Len(q) = most
                   /\ \A i \in 1..Len(q) :
                        q[i].total_seconds.text >= DomainSecondsSince(view.user, dom, s)

\* with limit 1, b.com (500 s) is returned although the records of a.com add
\* up to more: they are split into one group per title
C15_SplitDomain ==
  /\ view.route = "top-domains" /\ view.step = "done"
  /\ view.limit = Some(BigintText(1))
  /\ Len(view.domains) = 1
  /\ view.domains[1].domain = "b.com"
  /\ view.domains[1].total_seconds = BigintText(500)
  /\ DomainSecondsSince(view.user, "a.com", view.since) = 600
  /\ DomainSecondsSince(view.user, "b.com", view.since) = 500

\* with limit 1 and the in-window records a.com 300 s and b.com 500 s, only
\* b.com is returned
C15_Example ==
  /\ view.route = "top-domains" /\ view.step = "done"
  /\ view.limit = Some(BigintText(1))
  /\ DomainSecondsSince(view.user, "a.com", view.since) = 300
  /\ DomainSecondsSince(view.user, "b.com", view.since) = 500
  /\ Len(view.domains) = 1
  /\ view.domains[1].domain = "b.com"

\* the handler is past its event loop and has not failed
EventsDone(p) ==
  \/ pc[p] \in {"lastsync", "synclog"}
  \/ pc[p] = "done" /\ loc[p].status = 200

\* C16: no step changes or removes a stored event; a push has appended at most
\* 200 events; and once its event loop is over, the rows it appended are the
\* last min(n, 200) entries of its list of n entries, in list order.
C16_EventCap ==
  [][/\ Len(events') >= Len(events)
     /\ SubSeq(events', 1, Len(events)) = events
     /\ \A p \in {"p1"} :
          /\ loc'[p].eventCount <= EventCap
          /\ EventsDone(p)' =>
               LET n == req'[p].evLen
                   kept == IF n > EventCap THEN EventCap ELSE n
                   base == Len(events') - kept
               IN /\ loc'[p].eventCount = kept
                  /\ base >= 0
                  /\ \A i \in 1..kept :
                       events'[base + i] =
                         [user_id |-> req'[p].user, device_id |-> req'[p].deviceId[1],
                          ev |-> n - kept + i]]_vars

\* a push with more than 200 events succeeded on a table that held events
C16_Witness ==
  /\ pc["p1"] = "done" /\ loc["p1"].status = 200
  /\ req["p1"].evLen > EventCap
  /\ loc["p1"].eventCount = EventCap
  /\ Len(events) > EventCap

\* C17: every stored usage record, activity event and screenshot references a
\* device that exists, in every reachable state; so after a device is deleted
\* none that references it remains, whatever push or upload raced with the
\* deletion.
C17_Cascade ==
  /\ \A k \in UsageKeys : usage[k] # None => devices[k[2]] # None
  /\ \A i \in 1..Len(events) : devices[events[i].device_id] # None
  /\ \A x \in shots : shotDev[x] \in DeviceIds /\ devices[shotDev[x]] # None

\* d1 is deleted while a push for it had merged an entry and went on to insert
\* an event: the push ends in 500 and nothing of d1 is left
C17_Witness ==
  /\ devices["d1"] = None
  /\ \E p \in Procs : /\ pc[p] = "done"
                       /\ req[p].usageKind = "object"
                       /\ loc[p].status = 500
                       /\ loc[p].usageCount > 0

\* C18: a push answers 200 only with its INSERT INTO sync_log: that step
\* appends exactly one entry, of type 'push', for the push's user and device,
\* whose count is the number of (date, domain) entries the push merged and the
\* usageRecords of the response; the device's lastSyncAt has been set by then;
\* and once a push is past its merge loop it merges nothing more, so both side
\* effects come after all its merges.
C18_SideEffects ==
  [][\A p \in Procs :
       /\ (pc'[p] = "done" /\ pc[p] # "done" /\ loc'[p].status = 200) =>
            /\ pc[p] = "synclog"
            /\ syncLog' = Append(syncLog,
                                 [user_id |-> req[p].user,
                                  device_id |-> req[p].deviceId[1],
                                  sync_type |-> "push",
                                  records_synced |-> Cardinality(loc[p].visited)])
            /\ loc'[p].synced =
                 Some([usageRecords |-> Cardinality(loc[p].visited),
                       activityEvents |-> loc[p].eventCount])
            /\ devices'[req[p].deviceId[1]][1].last_sync_at # None
            /\ usage' = usage
       /\ (pc[p] = "lastsync" /\ pc'[p] # "lastsync") =>
            /\ pc'[p] = "synclog"
            /\ devices'[req[p].deviceId[1]][1].last_sync_at = Some(Now)
            /\ usage' = usage /\ syncLog' = syncLog
       /\ pc[p] \in {"events", "lastsync", "synclog", "done"} => pc'[p] # "usage"
       /\ (syncLog' # syncLog /\ pc'[p] # pc[p]) => pc[p] = "synclog"
       /\ (loc'[p].visited # loc[p].visited /\ loc'[p].visited # {}) =>
            pc[p] = "usage"]_vars

\* a push that merged two entries and inserted an event has answered 200
C18_Witness ==
  \E p \in Procs :
    /\ pc[p] = "done"
    /\ loc[p].status = 200
    /\ loc[p].synced = Some([usageRecords |-> 2, activityEvents |-> MaxEvents])
    /\ syncLog # <<>>
    /\ syncLog[Len(syncLog)].records_synced = 2
    /\ devices["d1"][1].last_sync_at # None

\* C19: a row whose file the handler found missing is deleted all the same:
\* the handler does not fail, and the row is gone once the handler has run
\* its DELETE for it.
C19_BestEffort ==
  \A p \in Procs :
    /\ uloc[p].gone # {} => uloc[p].status \in {0, 200, 201}
    /\ \A x \in uloc[p].gone :
         x \in shots =>
           \/ upc[p] = "delete" /\ uloc[p].oldest # <<>> /\ uloc[p].oldest[1] = x
           \/ upc[p] = "ddelete" /\ uloc[p].target = x

\* limit enforcement removed a row whose file DELETE /:id had unlinked, and
\* DELETE /:id removed a row whose file limit enforcement had unlinked
C19_Witness ==
  /\ upc["p1"] = "done" /\ uloc["p1"].status = 201
  /\ uloc["p1"].gone # {} /\ uloc["p1"].gone \cap shots = {}

\* the same for DELETE /:id
C19_WitnessDelete ==
  /\ upc["p2"] = "done" /\ uloc["p2"].status = 200
  /\ uloc["p2"].gone # {} /\ uloc["p2"].gone \cap shots = {}

\* C20: a step that changes a usage record is a merge of some push, and the
\* record's key is that push's user, that push's device, and a (date, domain)
\* pair of that push's report; the new record is the merge of the old one with
\* the report's entry for the pair. Every other record is unchanged.
C20_Frame ==
  [][\A k \in UsageKeys :
       usage'[k] # usage[k] =>
         \E p \in Procs :
           /\ pc[p] = "usage" /\ loc'[p].usageCount = loc[p].usageCount + 1
           /\ k[1] = req[p].user
           /\ k[2] = req[p].deviceId[1]
           /\ <<k[4], k[3]>> \in DOMAIN req[p].report[1]
           /\ usage'[k] = Upsert(usage[k],
                                 Excluded(k[3], req[p].report[1][<<k[4], k[3]>>]))]_vars

\* u1 has pushed for d1 and u2 for d2, each a different report: each record
\* holds its own push, and the keys neither report names are empty
C20_Witness ==
  /\ usage[<<"u1", "d1", "a.com", "2024-01-01">>] # None
  /\ usage[<<"u2", "d2", "a.com", "2024-01-02">>] # None
  /\ \A k \in UsageKeys :
       usage[k] # None => k \in {<<"u1", "d1", "a.com", "2024-01-01">>,
                                 <<"u2", "d2", "a.com", "2024-01-02">>}
  /\ usage[<<"u1", "d1", "a.com", "2024-01-01">>][1].total_seconds = Some(1)
  /\ usage[<<"u2", "d2", "a.com", "2024-01-02">>][1].total_seconds = Some(MaxSeconds)

\* C7: whenever no upload request is in flight, at most 200 rows are stored.
C7_RetentionCap ==
  (\A p \in Procs : upc[p] = "idle") => Cardinality(shots) <= ScreenshotCap

\* C8: a step that removes rows removes exactly the oldest one and leaves at
\* least 200.
C8_ExactEviction ==
  [][shots' # shots /\ shots' \subseteq shots =>
       /\ Cardinality(shots') >= ScreenshotCap
       /\ \A x \in shots \ shots' : \A y \in shots : x <= y]_vars

====
